---------------------------- MODULE Spec2Model ----------------------------
(***************************************************************************)
(* Model of scripts/rrule-gauntlet/rrule_gauntlet.py: the ground-truth     *)
(* resolver (verify_challenge, verify_all), the answer comparator          *)
(* (normalize_datetime, compare_answers), the agent response parser        *)
(* (parse_llm_response), the verification command (cmd_verify) and the     *)
(* evaluation runner (cmd_test).                                           *)
(*                                                                         *)
(* A Python str is a sequence of one-character strings, so that strip,     *)
(* split, find, slicing and json.loads are computed character by           *)
(* character.  A value returned by json.loads is a record [t, v]: t is the *)
(* Python type ("str", "int", "list") and v its content.                   *)
(***************************************************************************)
EXTENDS Integers, Sequences, FiniteSets, TLC

VARIABLES
    ns, norm1, norm2, npc,                          \* normalize_datetime applied twice
    expected, actual, verdict, permuted, verdict2, cpc,  \* compare_answers
    response, parsed, ppc,                          \* parse_llm_response
    challenges, vresults, vi, vpc,                  \* cmd_verify, verify_all
    voutput, verrors, vfile,                        \* cmd_verify
    target, agent, ti, results, passed, tpc         \* cmd_test

vars == <<ns, norm1, norm2, npc,
          expected, actual, verdict, permuted, verdict2, cpc,
          response, parsed, ppc,
          challenges, vresults, vi, vpc, voutput, verrors, vfile,
          target, agent, ti, results, passed, tpc>>

normVars == <<ns, norm1, norm2, npc>>
cmpVars == <<expected, actual, verdict, permuted, verdict2, cpc>>
parseVars == <<response, parsed, ppc>>
verifyVars == <<challenges, vresults, vi, vpc, voutput, verrors, vfile>>
testVars == <<target, agent, ti, results, passed, tpc>>

----------------------------------------------------------------------------
(* Bounds of the checked input sets. *)

\* longest string given to normalize_datetime
MaxStrLen == 4
\* longest expected list given to compare_answers
MaxExpected == 2
\* longest actual list given to compare_answers
MaxActual == 3
\* most lines of an agent response given to parse_llm_response
MaxLines == 4
\* most challenges in a verify_all batch
MaxBatch == 3
\* most challenges selected for a cmd_test run
MaxTarget == 2

----------------------------------------------------------------------------
(* Python str operations. *)

\* characters str.strip() removes (the ones that occur in the inputs)
Whitespace == {" ", "\t", "\n", "\r"}

\* s[i:j] with 1-based inclusive bounds
Slice(s, i, j) == IF i > j THEN <<>> ELSE SubSeq(s, i, j)

RECURSIVE LStrip(_)
LStrip(s) ==
    IF s # <<>> /\ Head(s) \in Whitespace THEN LStrip(Tail(s)) ELSE s

RECURSIVE RStrip(_)
RStrip(s) ==
    IF s # <<>> /\ s[Len(s)] \in Whitespace
    THEN RStrip(SubSeq(s, 1, Len(s) - 1))
    ELSE s

\* str.strip()
Strip(s) == RStrip(LStrip(s))

\* str.startswith(p)
StartsWith(s, p) == Len(s) >= Len(p) /\ SubSeq(s, 1, Len(p)) = p

\* str.endswith(p)
EndsWith(s, p) ==
    Len(s) >= Len(p) /\ SubSeq(s, Len(s) - Len(p) + 1, Len(s)) = p

\* p in s
Contains(s, p) ==
    \E i \in 1..(Len(s) - Len(p) + 1) : SubSeq(s, i, i + Len(p) - 1) = p

\* s.find(c) for a one-character c: the first index (1-based), 0 for Python's -1
Find(s, c) ==
    IF \E i \in 1..Len(s) : s[i] = c
    THEN CHOOSE i \in 1..Len(s) : s[i] = c /\ \A j \in 1..(i - 1) : s[j] # c
    ELSE 0

\* s.rfind(c) for a one-character c: the last index (1-based), 0 for Python's -1
RFind(s, c) ==
    IF \E i \in 1..Len(s) : s[i] = c
    THEN CHOOSE i \in 1..Len(s) : s[i] = c /\ \A j \in (i + 1)..Len(s) : s[j] # c
    ELSE 0

\* s.split("\n"): always at least one line
RECURSIVE SplitLines(_, _, _)
SplitLines(s, i, cur) ==
    IF i > Len(s) THEN <<cur>>
    ELSE IF s[i] = "\n" THEN <<cur>> \o SplitLines(s, i + 1, <<>>)
    ELSE SplitLines(s, i + 1, Append(cur, s[i]))

\* "\n".join(lines)
RECURSIVE JoinLines(_)
JoinLines(lines) ==
    IF lines = <<>> THEN <<>>
    ELSE IF Len(lines) = 1 THEN lines[1]
    ELSE lines[1] \o <<"\n">> \o JoinLines(Tail(lines))

----------------------------------------------------------------------------
(* Answer comparison. *)

\* the suffix written in place of a trailing "Z"
UtcOffset == <<"+", "0", "0", ":", "0", "0">>

\* a plausible slip: the suffix test made before the whitespace is stripped
normalize_datetime_late_strip(s) ==
    Strip(IF EndsWith(s, <<"Z">>)
          THEN SubSeq(s, 1, Len(s) - 1) \o UtcOffset
          ELSE s)

normalize_datetime(s) ==
    LET t == Strip(s) IN
    IF EndsWith(t, <<"Z">>)
    THEN SubSeq(t, 1, Len(t) - 1) \o UtcOffset
    ELSE t

\* [normalize_datetime(x) for x in xs]
NormalizeAll(xs) == [i \in 1..Len(xs) |-> normalize_datetime(xs[i])]

\* x in xs
Member(x, xs) == \E i \in 1..Len(xs) : xs[i] = x

\* [x for x in xs if x not in ys], in the order of xs
RECURSIVE NotIn(_, _)
NotIn(xs, ys) ==
    IF xs = <<>> THEN <<>>
    ELSE IF Member(Head(xs), ys) THEN NotIn(Tail(xs), ys)
    ELSE <<Head(xs)>> \o NotIn(Tail(xs), ys)

Min(a, b) == IF a <= b THEN a ELSE b

\* sum(1 for e, a in zip(xs, ys) if e == a)
ZipMatches(xs, ys) ==
    Cardinality({i \in 1..Min(Len(xs), Len(ys)) : xs[i] = ys[i]})

\* a plausible slip: matching counted by membership instead of by position
compare_answers_member_matching(exp, act) ==
    LET ne == NormalizeAll(exp)
        na == NormalizeAll(act)
    IN [correct |-> ne = na,
        expected_count |-> Len(ne),
        actual_count |-> Len(na),
        matching |-> Cardinality({i \in 1..Len(ne) : Member(ne[i], na)}),
        missing |-> NotIn(ne, na),
        extra |-> NotIn(na, ne)]

\* a plausible slip: the verdict graded as set equality
compare_answers_set_equality(exp, act) ==
    LET ne == NormalizeAll(exp)
        na == NormalizeAll(act)
    IN [correct |-> NotIn(ne, na) = <<>> /\ NotIn(na, ne) = <<>>,
        expected_count |-> Len(ne),
        actual_count |-> Len(na),
        matching |-> ZipMatches(ne, na),
        missing |-> NotIn(ne, na),
        extra |-> NotIn(na, ne)]

\* a plausible slip: missing computed by position instead of by membership
compare_answers_positional_missing(exp, act) ==
    LET ne == NormalizeAll(exp)
        na == NormalizeAll(act)
        idx == {i \in 1..Len(ne) : i > Len(na) \/ ne[i] # na[i]}
    IN [correct |-> ne = na,
        expected_count |-> Len(ne),
        actual_count |-> Len(na),
        matching |-> ZipMatches(ne, na),
        missing |-> LET F[i \in 0..Len(ne)] ==
                            IF i = 0 THEN <<>>
                            ELSE IF i \in idx THEN Append(F[i - 1], ne[i])
                            ELSE F[i - 1]
                    IN F[Len(ne)],
        extra |-> NotIn(na, ne)]

compare_answers(exp, act) ==
    LET norm_expected == NormalizeAll(exp)
        norm_actual == NormalizeAll(act)
    IN [correct |-> norm_expected = norm_actual,
        expected_count |-> Len(norm_expected),
        actual_count |-> Len(norm_actual),
        matching |-> ZipMatches(norm_expected, norm_actual),
        missing |-> NotIn(norm_expected, norm_actual),
        extra |-> NotIn(norm_actual, norm_expected)]

----------------------------------------------------------------------------
(* json.loads, restricted to the characters of the checked responses:      *)
(* strings without escapes, unsigned integers, arrays.  A letter outside a *)
(* string, a grave accent, or any other character starts no JSON value.    *)

JStr(s) == [t |-> "str", v |-> s]
JInt(d) == [t |-> "int", v |-> d]
JList(es) == [t |-> "list", v |-> es]

\* the empty list a row's llm_answer starts as
EmptyList == JList(<<>>)

Digits == {"0", "1", "2", "3", "4", "5", "6", "7", "8", "9"}

\* a scan that raised JSONDecodeError
ScanFail == [ok |-> FALSE, val |-> EmptyList, pos |-> 0]

ScanOk(val, pos) == [ok |-> TRUE, val |-> val, pos |-> pos]

\* json.decoder WHITESPACE.match(s, i).end()
RECURSIVE SkipWs(_, _)
SkipWs(s, i) ==
    IF i <= Len(s) /\ s[i] \in Whitespace THEN SkipWs(s, i + 1) ELSE i

\* py_scanstring from the character after the opening quote: the content up
\* to the closing quote; a control character inside the string is an error
RECURSIVE scanstring(_, _, _)
scanstring(s, i, acc) ==
    IF i > Len(s) THEN ScanFail
    ELSE IF s[i] = "\"" THEN ScanOk(JStr(acc), i + 1)
    ELSE IF s[i] \in {"\t", "\n", "\r"} THEN ScanFail
    ELSE scanstring(s, i + 1, Append(acc, s[i]))

\* NUMBER_RE: 0, or a digit 1-9 followed by digits
RECURSIVE DigitRun(_, _)
DigitRun(s, i) ==
    IF i <= Len(s) /\ s[i] \in Digits THEN DigitRun(s, i + 1) ELSE i

scannumber(s, i) ==
    LET j == IF s[i] = "0" THEN i + 1 ELSE DigitRun(s, i)
    IN ScanOk(JInt(SubSeq(s, i, j - 1)), j)

\* py_make_scanner _scan_once and JSONArray
RECURSIVE scan_once(_, _)
RECURSIVE JSONArray(_, _, _)
scan_once(s, i) ==
    IF i > Len(s) THEN ScanFail
    ELSE IF s[i] = "\"" THEN scanstring(s, i + 1, <<>>)
    ELSE IF s[i] = "["
         THEN LET j == SkipWs(s, i + 1) IN
              IF j <= Len(s) /\ s[j] = "]"
              THEN ScanOk(EmptyList, j + 1)
              ELSE JSONArray(s, j, <<>>)
    ELSE IF s[i] \in Digits THEN scannumber(s, i)
    ELSE ScanFail

JSONArray(s, i, acc) ==
    LET r == scan_once(s, i) IN
    IF ~r.ok THEN ScanFail
    ELSE LET j == SkipWs(s, r.pos) IN
         IF j > Len(s) THEN ScanFail
         ELSE IF s[j] = "]" THEN ScanOk(JList(Append(acc, r.val)), j + 1)
         ELSE IF s[j] # "," THEN ScanFail
         ELSE JSONArray(s, SkipWs(s, j + 1), Append(acc, r.val))

\* json.loads(s): [raised, val]; trailing text after the value is an error
json_loads(s) ==
    LET r == scan_once(s, SkipWs(s, 1)) IN
    IF r.ok /\ SkipWs(s, r.pos) = Len(s) + 1
    THEN [raised |-> FALSE, val |-> r.val]
    ELSE [raised |-> TRUE, val |-> EmptyList]

----------------------------------------------------------------------------
(* Agent response parser. *)

\* the grave accent character (U+0060), which a TLA+ string cannot hold
Backtick == "BACKTICK"

\* the fenced code block marker: three grave accents
Fence == <<Backtick, Backtick, Backtick>>

\* the loop over the lines: the lines after the first marker line, up to
\* the next marker line
RECURSIVE BlockLines(_, _, _)
BlockLines(lines, in_block, block_lines) ==
    IF lines = <<>> THEN block_lines
    ELSE IF StartsWith(Strip(Head(lines)), Fence)
         THEN IF in_block THEN block_lines
              ELSE BlockLines(Tail(lines), TRUE, block_lines)
    ELSE IF in_block
         THEN BlockLines(Tail(lines), TRUE, Append(block_lines, Head(lines)))
    ELSE BlockLines(Tail(lines), FALSE, block_lines)

\* "Strip markdown code fences"
StripFences(text) ==
    IF Contains(text, Fence)
    THEN LET block_lines == BlockLines(SplitLines(text, 1, <<>>), FALSE, <<>>)
         IN IF block_lines # <<>> THEN Strip(JoinLines(block_lines)) ELSE text
    ELSE text

\* "Find the JSON array"
ArraySpan(text) ==
    LET start == Find(text, "[")
        end == RFind(text, "]")
    IN IF start # 0 /\ end # 0 THEN Slice(text, start, end) ELSE text

parse_llm_response(resp) == json_loads(ArraySpan(StripFences(Strip(resp))))

----------------------------------------------------------------------------
(* Ground truth resolver.  A challenge is a record: id, verification_mode, *)
(* has_answer (the key "correct_answer" is present), correct_answer, and   *)
(* engine, the outcome of expand_rrule on the challenge's rule: it raises, *)
(* or it returns events whose "start" fields are engine.starts.            *)

Returned(answer) == [raised |-> FALSE, cause |-> "", answer |-> answer]
Raised(cause) == [raised |-> TRUE, cause |-> cause, answer |-> <<>>]

verify_challenge(ch) ==
    IF ch.verification_mode = "hardcoded"
    THEN IF ch.has_answer THEN Returned(ch.correct_answer)
         ELSE Raised("KeyError: correct_answer")
    ELSE IF ch.engine.raises THEN Raised(ch.engine.cause)
    ELSE Returned(ch.engine.starts)

\* results[ch["id"]] = value
SetItem(res, key, value) ==
    [k \in (DOMAIN res) \cup {key} |-> IF k = key THEN value ELSE res[k]]

\* a plausible slip: no try/except, so a failing challenge leaves no row
verify_all_body_unguarded(res, ch) ==
    LET r == verify_challenge(ch) IN
    IF r.raised THEN res
    ELSE SetItem(res, ch.id, [kind |-> "answer", val |-> r.answer])

\* one iteration of the loop of verify_all
verify_all_body(res, ch) ==
    LET r == verify_challenge(ch) IN
    IF r.raised
    THEN SetItem(res, ch.id, [kind |-> "error", val |-> <<"ERROR: ", r.cause>>])
    ELSE SetItem(res, ch.id, [kind |-> "answer", val |-> r.answer])

----------------------------------------------------------------------------
(* Evaluation runner. *)

\* not ch.get("correct_answer"): the key is absent or the list is empty
NeedsAnswer(ch) == ~ch.has_answer \/ ch.correct_answer = <<>>

\* iterating the parsed value in compare_answers raises: an int is not
\* iterable, and a list element that is no str has no strip()
CompareRaises(val) ==
    \/ val.t = "int"
    \/ val.t = "list" /\ \E i \in 1..Len(val.v) : val.v[i].t # "str"

\* the strings compare_answers iterates over: the elements of a list, the
\* characters of a str
Iterate(val) ==
    IF val.t = "list" THEN [i \in 1..Len(val.v) |-> val.v[i].v]
    ELSE [i \in 1..Len(val.v) |-> <<val.v[i]>>]

\* the row appended for a challenge, from its comparison
ResultRow(ch, llm_answer, raw, comparison) ==
    [id |-> ch.id,
     expected |-> ch.correct_answer,
     actual |-> llm_answer,
     raw_response |-> raw,
     correct |-> comparison.correct,
     expected_count |-> comparison.expected_count,
     actual_count |-> comparison.actual_count,
     matching |-> comparison.matching,
     missing |-> comparison.missing,
     extra |-> comparison.extra]

\* the except branch
FailedRow(ch, llm_answer, cause) ==
    ResultRow(ch, llm_answer, [kind |-> "error", val |-> <<"ERROR: ", cause>>],
              [correct |-> FALSE,
               expected_count |-> Len(ch.correct_answer),
               actual_count |-> 0,
               matching |-> 0,
               missing |-> ch.correct_answer,
               extra |-> <<>>])

\* the try block of one iteration: run_llm, parse_llm_response,
\* compare_answers; out is what run_llm does for this challenge
cmd_test_row(ch, out) ==
    IF out.raises THEN FailedRow(ch, EmptyList, out.cause)
    ELSE LET p == parse_llm_response(out.text) IN
         IF p.raised THEN FailedRow(ch, EmptyList, "JSONDecodeError")
         ELSE IF CompareRaises(p.val)
              THEN FailedRow(ch, p.val,
                             IF p.val.t = "int" THEN "TypeError"
                             ELSE "AttributeError")
         ELSE ResultRow(ch, p.val, [kind |-> "text", val |-> out.text],
                        compare_answers(ch.correct_answer, Iterate(p.val)))

\* a plausible slip: every row counted as a pass
count_passed_always(n, row) == n + 1

\* if comparison["correct"]: passed += 1
count_passed(n, row) == IF row.correct THEN n + 1 ELSE n

----------------------------------------------------------------------------
(* Checked inputs. *)

SeqsUpTo(S, n) == UNION {[1..k -> S] : k \in 0..n}

\* characters of the strings given to normalize_datetime
NormChars == {" ", "\n", "Z", "A"}

\* timestamps, with the date and time abbreviated to one letter
TsAZ == <<"A", "Z">>
TsA0 == <<"A">> \o UtcOffset
TsB == <<" ", "B">>
TsC == <<"C">>
Timestamps == {TsAZ, TsA0, TsB, TsC}

\* lines of an agent response
LineFence == Fence
LineProse == <<"x">>
LineArray == <<"[", "\"", "A", "\"", "]">>
LineIntArray == <<"[", "1", "]">>
LineString == <<"\"", "A", "\"">>
LineInlineFence == <<"x">> \o Fence
LineEmpty == <<>>
ResponseLines ==
    {LineFence, LineProse, LineArray, LineIntArray, LineString,
     LineInlineFence, LineEmpty}

\* what the engine does for a challenge
EngineOutcomes ==
    {[raises |-> TRUE, cause |-> "invalid rrule", starts |-> <<>>],
     [raises |-> FALSE, cause |-> "", starts |-> <<TsA0, TsC>>]}

\* challenge definitions; a hardcoded one has its answer and no engine call
ChallengeKinds ==
    {[verification_mode |-> "engine", has_answer |-> a.has, correct_answer |-> a.ans,
      engine |-> e] :
        a \in {[has |-> FALSE, ans |-> <<>>], [has |-> TRUE, ans |-> <<>>],
               [has |-> TRUE, ans |-> <<TsA0>>]},
        e \in EngineOutcomes}
    \cup
    {[verification_mode |-> "hardcoded", has_answer |-> TRUE, correct_answer |-> ans,
      engine |-> [raises |-> TRUE, cause |-> "invalid rrule", starts |-> <<>>]] :
        ans \in {<<>>, <<TsA0>>}}

\* identifiers are unique within a registry
ChallengeId(i) == <<"ch", i>>

\* a registry: challenge definitions, numbered in order
Registries(n) ==
    {[i \in 1..Len(ks) |->
        [id |-> ChallengeId(i),
         verification_mode |-> ks[i].verification_mode,
         has_answer |-> ks[i].has_answer,
         correct_answer |-> ks[i].correct_answer,
         engine |-> ks[i].engine]] : ks \in SeqsUpTo(ChallengeKinds, n)}

\* what run_llm does for a challenge: it raises or returns a text
AgentOutcomes ==
    {[raises |-> TRUE, cause |-> "api error", text |-> <<>>]} \cup
    {[raises |-> FALSE, cause |-> "", text |-> t] :
        t \in {<<"[", "\"", "A", "Z", "\"", "]">>, LineIntArray, LineProse,
               LineString}}

----------------------------------------------------------------------------
(* States of the parts a specification does not run. *)

NoVerdict ==
    [correct |-> FALSE, expected_count |-> 0, actual_count |-> 0,
     matching |-> 0, missing |-> <<>>, extra |-> <<>>]

NoParse == [raised |-> FALSE, val |-> EmptyList]

NormIdle == ns = <<>> /\ norm1 = <<>> /\ norm2 = <<>> /\ npc = "idle"

CmpIdle ==
    /\ expected = <<>> /\ actual = <<>> /\ verdict = NoVerdict
    /\ permuted = <<>> /\ verdict2 = NoVerdict /\ cpc = "idle"

ParseIdle == response = <<>> /\ parsed = NoParse /\ ppc = "idle"

\* the output file of cmd_verify before anything is written to it
NoFile == [written |-> FALSE, content |-> <<>>]

VerifyIdle ==
    /\ challenges = <<>> /\ vresults = <<>> /\ vi = 1 /\ vpc = "idle"
    /\ voutput = FALSE /\ verrors = 0 /\ vfile = NoFile

TestIdle ==
    /\ target = <<>> /\ agent = <<>> /\ ti = 1
    /\ results = <<>> /\ passed = 0 /\ tpc = "idle"

----------------------------------------------------------------------------
(* normalize_datetime applied to a string, then to its own result. *)

InitNormalize ==
    /\ ns \in SeqsUpTo(NormChars, MaxStrLen)
    /\ norm1 = <<>> /\ norm2 = <<>> /\ npc = "start"
    /\ CmpIdle /\ ParseIdle /\ VerifyIdle /\ TestIdle

Normalize ==
    /\ npc = "start"
    /\ norm1' = normalize_datetime(ns)
    /\ npc' = "once"
    /\ UNCHANGED <<ns, norm2, cmpVars, parseVars, verifyVars, testVars>>

NormalizeAgain ==
    /\ npc = "once"
    /\ norm2' = normalize_datetime(norm1)
    /\ npc' = "twice"
    /\ UNCHANGED <<ns, norm1, cmpVars, parseVars, verifyVars, testVars>>

NextNormalize == Normalize \/ NormalizeAgain

SpecNormalize == InitNormalize /\ [][NextNormalize]_vars

----------------------------------------------------------------------------
(* compare_answers on a pair of lists, then on the same expected list and  *)
(* a permutation of the actual list.                                       *)

\* the rearrangements of xs
PermutationsOf(xs) ==
    {[i \in 1..Len(xs) |-> xs[p[i]]] :
        p \in {q \in [1..Len(xs) -> 1..Len(xs)] :
                  \A i, j \in 1..Len(xs) : q[i] = q[j] => i = j}}

InitCompare ==
    /\ expected \in SeqsUpTo(Timestamps, MaxExpected)
    /\ actual \in SeqsUpTo(Timestamps, MaxActual)
    /\ verdict = NoVerdict /\ permuted = <<>> /\ verdict2 = NoVerdict
    /\ cpc = "start"
    /\ NormIdle /\ ParseIdle /\ VerifyIdle /\ TestIdle

Compare ==
    /\ cpc = "start"
    /\ verdict' = compare_answers(expected, actual)
    /\ cpc' = "compared"
    /\ UNCHANGED <<expected, actual, permuted, verdict2,
                   normVars, parseVars, verifyVars, testVars>>

ComparePermuted ==
    /\ cpc = "compared"
    /\ \E a2 \in PermutationsOf(actual) :
          /\ permuted' = a2
          /\ verdict2' = compare_answers(expected, a2)
    /\ cpc' = "permuted"
    /\ UNCHANGED <<expected, actual, verdict,
                   normVars, parseVars, verifyVars, testVars>>

NextCompare == Compare \/ ComparePermuted

SpecCompare == InitCompare /\ [][NextCompare]_vars

----------------------------------------------------------------------------
(* parse_llm_response on an agent response of up to MaxLines lines. *)

InitParse ==
    /\ \E ls \in SeqsUpTo(ResponseLines, MaxLines) : response = JoinLines(ls)
    /\ parsed = NoParse /\ ppc = "start"
    /\ NormIdle /\ CmpIdle /\ VerifyIdle /\ TestIdle

Parse ==
    /\ ppc = "start"
    /\ parsed' = parse_llm_response(response)
    /\ ppc' = "parsed"
    /\ UNCHANGED <<response, normVars, cmpVars, verifyVars, testVars>>

NextParse == Parse

SpecParse == InitParse /\ [][NextParse]_vars

----------------------------------------------------------------------------
(* cmd_verify over a registry: verify_all, the report, and the refreshed   *)
(* ground truth written to the output file when --output is given.        *)

\* isinstance(answer, str) and answer.startswith("ERROR")
IsErrorRow(row) == row.kind = "error"

\* the report loop: errors += 1 for every error row
CountErrors(chs, res) ==
    Cardinality({i \in 1..Len(chs) : IsErrorRow(res[chs[i].id])})

\* "if not isinstance(val, str): ch["correct_answer"] = val", for every
\* challenge of the batch
RefreshAnswers(chs, res) ==
    [i \in 1..Len(chs) |->
        IF IsErrorRow(res[chs[i].id]) THEN chs[i]
        ELSE [chs[i] EXCEPT !.has_answer = TRUE,
                            !.correct_answer = res[chs[i].id].val]]

InitVerify ==
    /\ challenges \in Registries(MaxBatch)
    /\ voutput \in BOOLEAN
    /\ vresults = <<>> /\ vi = 1 /\ vpc = "loop"
    /\ verrors = 0 /\ vfile = NoFile
    /\ NormIdle /\ CmpIdle /\ ParseIdle /\ TestIdle

\* one iteration of "for ch in challenges" in verify_all
VerifyStep ==
    /\ vpc = "loop"
    /\ vi <= Len(challenges)
    /\ vresults' = verify_all_body(vresults, challenges[vi])
    /\ vi' = vi + 1
    /\ UNCHANGED <<challenges, vpc, voutput, verrors, vfile,
                   normVars, cmpVars, parseVars, testVars>>

\* verify_all returns results to cmd_verify
VerifyReturn ==
    /\ vpc = "loop"
    /\ vi > Len(challenges)
    /\ vpc' = "returned"
    /\ UNCHANGED <<challenges, vresults, vi, voutput, verrors, vfile,
                   normVars, cmpVars, parseVars, testVars>>

\* the report loop of cmd_verify
VerifyReport ==
    /\ vpc = "returned"
    /\ verrors' = CountErrors(challenges, vresults)
    /\ vpc' = "reported"
    /\ UNCHANGED <<challenges, vresults, vi, voutput, vfile,
                   normVars, cmpVars, parseVars, testVars>>

\* "if args.output and errors == 0": the answers are stored in the
\* challenges and the batch is dumped to the output file
VerifyWrite ==
    /\ vpc = "reported"
    /\ voutput /\ verrors = 0
    /\ challenges' = RefreshAnswers(challenges, vresults)
    /\ vfile' = [written |-> TRUE, content |-> challenges']
    /\ vpc' = "done"
    /\ UNCHANGED <<vresults, vi, voutput, verrors,
                   normVars, cmpVars, parseVars, testVars>>

\* "elif errors > 0": sys.exit(1)
VerifyFail ==
    /\ vpc = "reported"
    /\ verrors > 0
    /\ vpc' = "exit"
    /\ UNCHANGED <<challenges, vresults, vi, voutput, verrors, vfile,
                   normVars, cmpVars, parseVars, testVars>>

\* no error and no --output: nothing is written
VerifyDone ==
    /\ vpc = "reported"
    /\ ~voutput /\ verrors = 0
    /\ vpc' = "done"
    /\ UNCHANGED <<challenges, vresults, vi, voutput, verrors, vfile,
                   normVars, cmpVars, parseVars, testVars>>

NextVerify ==
    VerifyStep \/ VerifyReturn \/ VerifyReport \/ VerifyWrite \/ VerifyFail
    \/ VerifyDone

SpecVerify == InitVerify /\ [][NextVerify]_vars

----------------------------------------------------------------------------
(* cmd_test over the selected challenges; agent[i] is what run_llm does    *)
(* for the i-th of them.                                                   *)

Init ==
    /\ target \in Registries(MaxTarget)
    /\ agent \in [1..Len(target) -> AgentOutcomes]
    /\ ti = 1 /\ results = <<>> /\ passed = 0 /\ tpc = "start"
    /\ NormIdle /\ CmpIdle /\ ParseIdle /\ VerifyIdle

\* "if not target": sys.exit(1)
TestNotFound ==
    /\ tpc = "start"
    /\ target = <<>>
    /\ tpc' = "exit"
    /\ UNCHANGED <<target, agent, ti, results, passed,
                   normVars, cmpVars, parseVars, verifyVars>>

TestSelected ==
    /\ tpc = "start"
    /\ target # <<>>
    /\ tpc' = "resolve"
    /\ UNCHANGED <<target, agent, ti, results, passed,
                   normVars, cmpVars, parseVars, verifyVars>>

\* one iteration of "Ensure correct answers are populated": an exception of
\* verify_challenge is not caught and ends cmd_test
TestResolve ==
    /\ tpc = "resolve"
    /\ LET ch == target[ti]
           r == verify_challenge(ch)
           last == ti = Len(target)
       IN IF NeedsAnswer(ch) /\ r.raised
          THEN /\ tpc' = "crashed"
               /\ UNCHANGED <<target, ti>>
          ELSE /\ target' = IF NeedsAnswer(ch)
                            THEN [target EXCEPT ![ti].has_answer = TRUE,
                                                ![ti].correct_answer = r.answer]
                            ELSE target
               /\ ti' = IF last THEN 1 ELSE ti + 1
               /\ tpc' = IF last THEN "run" ELSE "resolve"
    /\ UNCHANGED <<agent, results, passed,
                   normVars, cmpVars, parseVars, verifyVars>>

\* one iteration of the evaluation loop
TestStep ==
    /\ tpc = "run"
    /\ LET row == cmd_test_row(target[ti], agent[ti]) IN
          /\ passed' = count_passed(passed, row)
          /\ results' = Append(results, row)
    /\ ti' = ti + 1
    /\ tpc' = IF ti = Len(target) THEN "done" ELSE "run"
    /\ UNCHANGED <<target, agent, normVars, cmpVars, parseVars, verifyVars>>

Next == TestNotFound \/ TestSelected \/ TestResolve \/ TestStep

Spec == Init /\ [][Next]_vars

----------------------------------------------------------------------------
(* Properties. *)

Reverse(xs) == [i \in 1..Len(xs) |-> xs[Len(xs) + 1 - i]]

Distinct(xs) == \A i, j \in 1..Len(xs) : xs[i] = xs[j] => i = j

\* a JSON value that is an array whose elements are all strings
IsStringList(val) ==
    val.t = "list" /\ \A i \in 1..Len(val.v) : val.v[i].t = "str"

\* C1: in a cmd_test run every per-challenge failure (ground-truth
\* resolution, agent invocation, response parsing) becomes a failing row:
\* no failure propagates out of the run, and a finished run holds one row
\* per selected challenge, in challenge order.
TestRunCatchesEveryFailure ==
    /\ tpc # "crashed"
    /\ tpc = "done" =>
          /\ Len(results) = Len(target)
          /\ \A j \in 1..Len(results) : results[j].id = target[j].id

\* what the engine-or-hardcoded resolution of a challenge yields when it
\* does not fail
NormalAnswer(ch) ==
    IF ch.verification_mode = "hardcoded" THEN ch.correct_answer
    ELSE ch.engine.starts

\* C2: verify_all holds exactly one row per challenge processed so far and,
\* once it has returned, one per challenge of the batch; the row of a
\* challenge whose Truth Engine call raises is "ERROR: <cause>", and the row
\* of every other challenge, before or after it, is its normal answer.
VerifyAllIsolatesFailures ==
    vpc # "idle" =>
        /\ vpc # "loop" => vi = Len(challenges) + 1
        /\ DOMAIN vresults = {challenges[i].id : i \in 1..(vi - 1)}
        /\ Cardinality(DOMAIN vresults) = vi - 1
        /\ \A i \in 1..(vi - 1) :
              LET ch == challenges[i]
                  row == vresults[ch.id]
              IN IF ch.verification_mode = "engine" /\ ch.engine.raises
                 THEN row.kind = "error"
                      /\ row.val = <<"ERROR: ", ch.engine.cause>>
                 ELSE row.kind = "answer" /\ row.val = NormalAnswer(ch)

\* a batch of three whose second challenge fails in the engine, returned
VerifyAllIsolatesFailuresWitness ==
    /\ vpc = "returned"
    /\ Len(challenges) = 3
    /\ challenges[2].verification_mode = "engine" /\ challenges[2].engine.raises
    /\ challenges[1].verification_mode = "engine" /\ ~challenges[1].engine.raises
    /\ challenges[3].verification_mode = "hardcoded"
    /\ vresults[challenges[2].id].kind = "error"
    /\ vresults[challenges[3].id].kind = "answer"

\* the response cannot be parsed as an array of strings
NotAStringArray(text) ==
    LET p == parse_llm_response(text) IN p.raised \/ ~IsStringList(p.val)

\* C3: the row recorded for a challenge whose agent invocation failed, or
\* whose response is not parseable as an array of strings, has correct =
\* false, missing = the full expected sequence, an empty actual sequence,
\* matching = 0, actual_count = 0, extra empty, and a raw response carrying
\* the failure cause.
FailureRowIsEmptyHanded ==
    \A j \in 1..Len(results) :
        (agent[j].raises \/ NotAStringArray(agent[j].text)) =>
            /\ results[j].raw_response.kind = "error"
            /\ ~results[j].correct
            /\ results[j].missing = target[j].correct_answer
            /\ results[j].actual = EmptyList
            /\ results[j].matching = 0
            /\ results[j].actual_count = 0
            /\ results[j].extra = <<>>

\* C4: the verdict of compare_answers has matching <= min(expected_count,
\* actual_count); correct implies missing and extra empty and equal
\* counts; and correct is true exactly when the two lists have the same
\* length and normalize to the same string at every position.
VerdictInvariants ==
    cpc \in {"compared", "permuted"} =>
        /\ verdict.expected_count = Len(expected)
        /\ verdict.actual_count = Len(actual)
        /\ verdict.matching <= Min(Len(expected), Len(actual))
        /\ verdict.correct =>
              /\ verdict.missing = <<>>
              /\ verdict.extra = <<>>
              /\ verdict.expected_count = verdict.actual_count
        /\ verdict.correct <=>
              /\ Len(expected) = Len(actual)
              /\ \A i \in 1..Len(expected) :
                    normalize_datetime(expected[i]) = normalize_datetime(actual[i])

\* a correct verdict on two lists that differ as written
VerdictInvariantsWitness ==
    /\ cpc = "compared"
    /\ verdict.correct
    /\ Len(expected) >= 2
    /\ expected # actual
    /\ verdict.matching = Len(expected)

\* C5: for a list S of length >= 2 whose normalized elements are pairwise
\* distinct, compare_answers(S, reverse(S)) has correct = false while
\* missing and extra are both empty.
VerdictIsOrderSensitive ==
    (/\ cpc \in {"compared", "permuted"}
     /\ Len(expected) >= 2
     /\ Distinct(NormalizeAll(expected))
     /\ actual = Reverse(expected)) =>
        /\ ~verdict.correct
        /\ verdict.missing = <<>>
        /\ verdict.extra = <<>>

\* a list of distinct timestamps, one of them rewritten by the
\* normalization, compared with its reverse
VerdictIsOrderSensitiveWitness ==
    /\ cpc = "compared"
    /\ Len(expected) >= 2
    /\ Distinct(NormalizeAll(expected))
    /\ NormalizeAll(expected) # expected
    /\ actual = Reverse(expected)
    /\ ~verdict.correct
    /\ verdict.matching = 0

\* C6 as stated: for every permutation of actual, compare_answers returns
\* the same missing and the same extra.
DiagnosticsIgnoreOrder ==
    cpc = "permuted" =>
        /\ verdict2.missing = verdict.missing
        /\ verdict2.extra = verdict.extra

\* C6 amended: for every permutation of actual, compare_answers returns the
\* same missing, and an extra with the same entries, each as many times,
\* listed in the order of the permuted actual.
DiagnosticsIgnoreOrderUpToExtraOrder ==
    cpc = "permuted" =>
        /\ verdict2.missing = verdict.missing
        /\ verdict2.extra \in PermutationsOf(verdict.extra)
        /\ verdict2.extra = NotIn(NormalizeAll(permuted), NormalizeAll(expected))

\* a permutation that reorders the extra entries and moves a match
DiagnosticsIgnoreOrderWitness ==
    /\ cpc = "permuted"
    /\ permuted # actual
    /\ Len(verdict.extra) >= 2
    /\ verdict2.extra # verdict.extra
    /\ verdict2.matching # verdict.matching

\* C7: parse_llm_response returns an array whose elements are all strings,
\* or fails with a parse error.
ParseReturnsStringsOrFails ==
    ppc = "parsed" => parsed.raised \/ IsStringList(parsed.val)

\* the lines that hold a fenced code block marker
MarkerLines(lines) == {i \in 1..Len(lines) : Contains(lines[i], Fence)}

\* the lines between the first marker and the next one (the end of the text
\* when there is none)
FirstBlock(lines) ==
    LET open == CHOOSE i \in MarkerLines(lines) :
                    \A k \in MarkerLines(lines) : i <= k
        later == {k \in MarkerLines(lines) : k > open}
        close == IF later = {} THEN Len(lines) + 1
                 ELSE CHOOSE k \in later : \A m \in later : k <= m
    IN Slice(lines, open + 1, close - 1)

\* the text holds a [ and, after it, a ]
HasBracketedArray(text) ==
    \E i, j \in 1..Len(text) : i < j /\ text[i] = "[" /\ text[j] = "]"

\* C8: when the response holds a fenced code block marker the array is
\* taken only from the content of the first fenced block; and when the
\* response holds no bracketed array anywhere, parsing fails.
ParseReadsOnlyFirstBlock ==
    ppc = "parsed" =>
        /\ Contains(response, Fence) =>
              parsed = json_loads(ArraySpan(Strip(JoinLines(
                           FirstBlock(SplitLines(Strip(response), 1, <<>>))))))
        /\ ~HasBracketedArray(response) => parsed.raised

\* C9: normalize_datetime(normalize_datetime(s)) = normalize_datetime(s).
NormalizeIsIdempotent == npc = "twice" => norm2 = norm1

\* surrounding whitespace and whitespace before a trailing Z
NormalizeIsIdempotentWitness ==
    /\ npc = "twice"
    /\ ns = <<" ", "A", " ", "Z">>
    /\ norm1 = <<"A", " ">> \o UtcOffset
    /\ norm2 = norm1

\* the rows and the pass counter agree with the challenges processed so far
RunnerState ==
    /\ Len(results) = (IF tpc = "run" THEN ti - 1
                       ELSE IF tpc = "done" THEN Len(target) ELSE 0)
    /\ \A j \in 1..Len(results) : results[j].id = target[j].id
    /\ passed = Cardinality({j \in 1..Len(results) : results[j].correct})
    /\ 0 <= passed /\ passed <= Len(target)

\* C10: after the k-th challenge is processed the result list holds
\* exactly k rows, in challenge order, and the pass counter is the number of
\* rows whose correct is true, so 0 <= passed <= total; every step keeps
\* the earlier rows and never lowers the counter.
ResultsAndPassCountOnlyGrow ==
    /\ RunnerState
    /\ [][/\ RunnerState'
          /\ Len(results') \in {Len(results), Len(results) + 1}
          /\ SubSeq(results', 1, Len(results)) = results
          /\ passed' >= passed]_vars

\* a finished run of two challenges, one passed and one failed
ResultsAndPassCountOnlyGrowWitness ==
    /\ tpc = "done"
    /\ Len(results) = 2
    /\ passed = 1
    /\ ~results[1].correct
    /\ results[2].correct

=============================================================================
